---- MODULE Spec2Model ----
(***************************************************************************)
(* Model of the Insurance PDF Parser (src/PDF_Parser/pdf_parser.py).       *)
(*                                                                         *)
(* Strings whose characters the program inspects (phone numbers, birth     *)
(* numbers, table cells) are sequences of one-character strings.  Czech    *)
(* diacritics are dropped from the string literals of the model.           *)
(***************************************************************************)
EXTENDS Integers, Sequences, FiniteSets, TLC

\* ------------------------------------------------------------------------
\* Bounds of the model
\* ------------------------------------------------------------------------
MaxPhoneBody == 9
MaxBirthLen == 7

\* ------------------------------------------------------------------------
\* Python string primitives
\* ------------------------------------------------------------------------
Digits == <<"0", "1", "2", "3", "4", "5", "6", "7", "8", "9">>

DigitChars == {Digits[i] : i \in 1..10}

IsDigit(c) == c \in DigitChars

DigitVal(c) == (CHOOSE i \in 1..10 : Digits[i] = c) - 1

\* s[a:b] of Python, 0-based, clipped to the string.
Slice(s, a, b) ==
    LET hi == IF b < Len(s) THEN b ELSE Len(s)
    IN  IF a >= hi THEN <<>> ELSE [i \in 1..(hi - a) |-> s[a + i]]

\* s[a:] of Python.
SliceFrom(s, a) == Slice(s, a, Len(s))

\* s.startswith(p)
StartsWith(s, p) == Len(s) >= Len(p) /\ Slice(s, 0, Len(p)) = p

\* re.sub(r"\D", "", s): keep the digits, in order.
RECURSIVE OnlyDigits(_)
OnlyDigits(s) ==
    IF s = <<>> THEN <<>>
    ELSE IF IsDigit(Head(s)) THEN <<Head(s)>> \o OnlyDigits(Tail(s))
    ELSE OnlyDigits(Tail(s))

\* s.replace(c, "") for a one-character c.
RECURSIVE RemoveChar(_, _)
RemoveChar(s, c) ==
    IF s = <<>> THEN <<>>
    ELSE IF Head(s) = c THEN RemoveChar(Tail(s), c)
    ELSE <<Head(s)>> \o RemoveChar(Tail(s), c)

\* int(s) for a string of digits.
RECURSIVE ParseInt(_)
ParseInt(s) ==
    IF s = <<>> THEN 0
    ELSE 10 * ParseInt(SubSeq(s, 1, Len(s) - 1)) + DigitVal(s[Len(s)])

\* str(n) for n >= 0: decimal, no leading zeros.
RECURSIVE IntToStr(_)
IntToStr(n) ==
    IF n < 10 THEN <<Digits[n + 1]>>
    ELSE IntToStr(n \div 10) \o <<Digits[(n % 10) + 1]>>

\* re.match(r"\d{6}", s): the first six characters are digits.
MatchSixDigits(s) == Len(s) >= 6 /\ \A i \in 1..6 : IsDigit(s[i])

\* ------------------------------------------------------------------------
\* Documents: a text is a sequence of lines, each ended by a newline.  The
\* tables below give, for every line of the vocabulary, what the program's
\* substring tests and regular expressions find in it.  The whitespace-only
\* line "  " occurs in blank documents only.
\* ------------------------------------------------------------------------
\* re.search found nothing (None); distinct from every string.
NoMatch == <<"None">>

\* An exception in place of a value; distinct from every string.
Raised == <<"Exception">>

\* The lines a document of the model is made of.
Vocabulary ==
    {"",
     "Allianz pojistovna, a.s.",
     "KOOPERATIVA pojistovna",
     "Generali pojistovna",
     "Ceska podnikatelska pojistovna",
     "Jan Novak",
     "Rodne cislo: 0501011234",
     "Rodne cislo 9651011234",
     "Rodne cislo: 960101/1234",
     "Cena vozidla: 150 000 Kc",
     "Pojistna castka 150 000",
     "Najete km: 42 000",
     "Stav pocitadla (km) 42 000",
     "Najete kilometry: 42 000",
     "Rocni najezd: Do 10 000 km",
     "Rocni najezd: 10 000",
     "POJISTNIK - fyzicka osoba",
     "Provozovatel je shodny s pojistnikem",
     "Vlastnik vozidla je shodny s pojistnikem",
     "Provozovatel Shodny s pojistnikem",
     "Vlastnik Shodny s pojistnikem",
     "Havarie ANO",
     "Havarijni pojisteni",
     "3.2 Drzitel (provozovatel) vozidla je shodny s pojistnikem",
     "3.1 Vlastnik vozidla: Jan Novak",
     "Mobilni telefon: +420 123 456 789"}

\* str.lower() on a line of the vocabulary.
Lower(line) ==
    CASE line = "Allianz pojistovna, a.s." -> "allianz pojistovna, a.s."
      [] line = "KOOPERATIVA pojistovna" -> "kooperativa pojistovna"
      [] line = "Generali pojistovna" -> "generali pojistovna"
      [] line = "Ceska podnikatelska pojistovna" -> "ceska podnikatelska pojistovna"
      [] line = "Jan Novak" -> "jan novak"
      [] line = "Rodne cislo: 0501011234" -> "rodne cislo: 0501011234"
      [] line = "Rodne cislo 9651011234" -> "rodne cislo 9651011234"
      [] line = "Rodne cislo: 960101/1234" -> "rodne cislo: 960101/1234"
      [] line = "Cena vozidla: 150 000 Kc" -> "cena vozidla: 150 000 kc"
      [] line = "Pojistna castka 150 000" -> "pojistna castka 150 000"
      [] line = "Najete km: 42 000" -> "najete km: 42 000"
      [] line = "Stav pocitadla (km) 42 000" -> "stav pocitadla (km) 42 000"
      [] line = "Najete kilometry: 42 000" -> "najete kilometry: 42 000"
      [] line = "Rocni najezd: Do 10 000 km" -> "rocni najezd: do 10 000 km"
      [] line = "Rocni najezd: 10 000" -> "rocni najezd: 10 000"
      [] line = "POJISTNIK - fyzicka osoba" -> "pojistnik - fyzicka osoba"
      [] line = "Provozovatel je shodny s pojistnikem" -> "provozovatel je shodny s pojistnikem"
      [] line = "Vlastnik vozidla je shodny s pojistnikem" -> "vlastnik vozidla je shodny s pojistnikem"
      [] line = "Provozovatel Shodny s pojistnikem" -> "provozovatel shodny s pojistnikem"
      [] line = "Vlastnik Shodny s pojistnikem" -> "vlastnik shodny s pojistnikem"
      [] line = "Havarie ANO" -> "havarie ano"
      [] line = "Havarijni pojisteni" -> "havarijni pojisteni"
      [] line = "3.2 Drzitel (provozovatel) vozidla je shodny s pojistnikem" -> "3.2 drzitel (provozovatel) vozidla je shodny s pojistnikem"
      [] line = "3.1 Vlastnik vozidla: Jan Novak" -> "3.1 vlastnik vozidla: jan novak"
      [] line = "Mobilni telefon: +420 123 456 789" -> "mobilni telefon: +420 123 456 789"
      [] OTHER -> line

\* The characters of a line.
Chars(line) ==
    CASE line = "Allianz pojistovna, a.s." -> <<"A", "l", "l", "i", "a", "n", "z", " ", "p", "o", "j", "i", "s", "t", "o", "v", "n", "a", ",", " ", "a", ".", "s", ".">>
      [] line = "KOOPERATIVA pojistovna" -> <<"K", "O", "O", "P", "E", "R", "A", "T", "I", "V", "A", " ", "p", "o", "j", "i", "s", "t", "o", "v", "n", "a">>
      [] line = "Generali pojistovna" -> <<"G", "e", "n", "e", "r", "a", "l", "i", " ", "p", "o", "j", "i", "s", "t", "o", "v", "n", "a">>
      [] line = "Ceska podnikatelska pojistovna" -> <<"C", "e", "s", "k", "a", " ", "p", "o", "d", "n", "i", "k", "a", "t", "e", "l", "s", "k", "a", " ", "p", "o", "j", "i", "s", "t", "o", "v", "n", "a">>
      [] line = "Jan Novak" -> <<"J", "a", "n", " ", "N", "o", "v", "a", "k">>
      [] line = "Rodne cislo: 0501011234" -> <<"R", "o", "d", "n", "e", " ", "c", "i", "s", "l", "o", ":", " ", "0", "5", "0", "1", "0", "1", "1", "2", "3", "4">>
      [] line = "Rodne cislo 9651011234" -> <<"R", "o", "d", "n", "e", " ", "c", "i", "s", "l", "o", " ", "9", "6", "5", "1", "0", "1", "1", "2", "3", "4">>
      [] line = "Rodne cislo: 960101/1234" -> <<"R", "o", "d", "n", "e", " ", "c", "i", "s", "l", "o", ":", " ", "9", "6", "0", "1", "0", "1", "/", "1", "2", "3", "4">>
      [] line = "Cena vozidla: 150 000 Kc" -> <<"C", "e", "n", "a", " ", "v", "o", "z", "i", "d", "l", "a", ":", " ", "1", "5", "0", " ", "0", "0", "0", " ", "K", "c">>
      [] line = "Pojistna castka 150 000" -> <<"P", "o", "j", "i", "s", "t", "n", "a", " ", "c", "a", "s", "t", "k", "a", " ", "1", "5", "0", " ", "0", "0", "0">>
      [] line = "Najete km: 42 000" -> <<"N", "a", "j", "e", "t", "e", " ", "k", "m", ":", " ", "4", "2", " ", "0", "0", "0">>
      [] line = "Stav pocitadla (km) 42 000" -> <<"S", "t", "a", "v", " ", "p", "o", "c", "i", "t", "a", "d", "l", "a", " ", "(", "k", "m", ")", " ", "4", "2", " ", "0", "0", "0">>
      [] line = "Najete kilometry: 42 000" -> <<"N", "a", "j", "e", "t", "e", " ", "k", "i", "l", "o", "m", "e", "t", "r", "y", ":", " ", "4", "2", " ", "0", "0", "0">>
      [] line = "Rocni najezd: Do 10 000 km" -> <<"R", "o", "c", "n", "i", " ", "n", "a", "j", "e", "z", "d", ":", " ", "D", "o", " ", "1", "0", " ", "0", "0", "0", " ", "k", "m">>
      [] line = "Rocni najezd: 10 000" -> <<"R", "o", "c", "n", "i", " ", "n", "a", "j", "e", "z", "d", ":", " ", "1", "0", " ", "0", "0", "0">>
      [] line = "POJISTNIK - fyzicka osoba" -> <<"P", "O", "J", "I", "S", "T", "N", "I", "K", " ", "-", " ", "f", "y", "z", "i", "c", "k", "a", " ", "o", "s", "o", "b", "a">>
      [] line = "Provozovatel je shodny s pojistnikem" -> <<"P", "r", "o", "v", "o", "z", "o", "v", "a", "t", "e", "l", " ", "j", "e", " ", "s", "h", "o", "d", "n", "y", " ", "s", " ", "p", "o", "j", "i", "s", "t", "n", "i", "k", "e", "m">>
      [] line = "Vlastnik vozidla je shodny s pojistnikem" -> <<"V", "l", "a", "s", "t", "n", "i", "k", " ", "v", "o", "z", "i", "d", "l", "a", " ", "j", "e", " ", "s", "h", "o", "d", "n", "y", " ", "s", " ", "p", "o", "j", "i", "s", "t", "n", "i", "k", "e", "m">>
      [] line = "Provozovatel Shodny s pojistnikem" -> <<"P", "r", "o", "v", "o", "z", "o", "v", "a", "t", "e", "l", " ", "S", "h", "o", "d", "n", "y", " ", "s", " ", "p", "o", "j", "i", "s", "t", "n", "i", "k", "e", "m">>
      [] line = "Vlastnik Shodny s pojistnikem" -> <<"V", "l", "a", "s", "t", "n", "i", "k", " ", "S", "h", "o", "d", "n", "y", " ", "s", " ", "p", "o", "j", "i", "s", "t", "n", "i", "k", "e", "m">>
      [] line = "Havarie ANO" -> <<"H", "a", "v", "a", "r", "i", "e", " ", "A", "N", "O">>
      [] line = "Havarijni pojisteni" -> <<"H", "a", "v", "a", "r", "i", "j", "n", "i", " ", "p", "o", "j", "i", "s", "t", "e", "n", "i">>
      [] line = "3.2 Drzitel (provozovatel) vozidla je shodny s pojistnikem" -> <<"3", ".", "2", " ", "D", "r", "z", "i", "t", "e", "l", " ", "(", "p", "r", "o", "v", "o", "z", "o", "v", "a", "t", "e", "l", ")", " ", "v", "o", "z", "i", "d", "l", "a", " ", "j", "e", " ", "s", "h", "o", "d", "n", "y", " ", "s", " ", "p", "o", "j", "i", "s", "t", "n", "i", "k", "e", "m">>
      [] line = "3.1 Vlastnik vozidla: Jan Novak" -> <<"3", ".", "1", " ", "V", "l", "a", "s", "t", "n", "i", "k", " ", "v", "o", "z", "i", "d", "l", "a", ":", " ", "J", "a", "n", " ", "N", "o", "v", "a", "k">>
      [] line = "Mobilni telefon: +420 123 456 789" -> <<"M", "o", "b", "i", "l", "n", "i", " ", "t", "e", "l", "e", "f", "o", "n", ":", " ", "+", "4", "2", "0", " ", "1", "2", "3", " ", "4", "5", "6", " ", "7", "8", "9">>
      [] line = "  " -> <<" ", " ">>
      [] OTHER -> <<>>

\* The substrings the program tests for that occur in a (raw or lowercased) line.
Needles(s) ==
    CASE s = "allianz pojistovna, a.s." ->
           {"allianz"}
      [] s = "kooperativa pojistovna" ->
           {"kooperativa"}
      [] s = "generali pojistovna" ->
           {"generali"}
      [] s = "ceska podnikatelska pojistovna" ->
           {"ceska podnikatelska"}
      [] s = "Rodne cislo: 0501011234" ->
           {"Rodne cislo"}
      [] s = "Rodne cislo 9651011234" ->
           {"Rodne cislo"}
      [] s = "Rodne cislo: 960101/1234" ->
           {"Rodne cislo"}
      [] s = "provozovatel je shodny s pojistnikem" ->
           {"provozovatel je shodny"}
      [] s = "vlastnik vozidla je shodny s pojistnikem" ->
           {"vlastnik vozidla je shodny"}
      [] s = "havarie ano" ->
           {"havarie", "havarie ano"}
      [] s = "Havarijni pojisteni" ->
           {"Havarijni pojisteni", "pojisteni"}
      [] s = "havarijni pojisteni" ->
           {"havarijni pojisteni", "pojisteni"}
      [] OTHER -> {}

\* The leading run of digits and whitespace of a line, which a group [\d\s]+ left open at
\* the end of the previous line runs into.
LeadDigits(line) ==
    CASE line = "3.2 Drzitel (provozovatel) vozidla je shodny s pojistnikem" -> <<"3">>
      [] line = "3.1 Vlastnik vozidla: Jan Novak" -> <<"3">>
      [] OTHER -> <<>>

\* line 161: Rodne cislo:\s*(\d{9,10})
re_allianz_rodne_cislo(line) ==
    CASE line = "Rodne cislo: 0501011234" -> <<"0", "5", "0", "1", "0", "1", "1", "2", "3", "4">>
      [] OTHER -> NoMatch

\* line 174: ([A-Z0-9]{5,8}), c\.
re_allianz_spz(line) == NoMatch

\* line 179: Nabidka pojistitele c\.\s*(\d+)
re_allianz_cislo_smlouvy(line) == NoMatch

\* line 182: KC ROCNE\s+(\d{1,2}\.\s*\d{1,2}\.\s*\d{4})
re_allianz_pocatek(line) == NoMatch

\* line 185: Rocni najezd:\s*(Do\s*[\d\s]+km)
re_allianz_rocni_najezd(line) ==
    CASE line = "Rocni najezd: Do 10 000 km" -> <<"D", "o", " ", "1", "0", " ", "0", "0", "0", " ", "k", "m">>
      [] OTHER -> NoMatch

\* line 188: Mobilni telefon:\s*([\+0-9 ]+)
re_allianz_telefon(line) ==
    CASE line = "Mobilni telefon: +420 123 456 789" -> <<"+", "4", "2", "0", " ", "1", "2", "3", " ", "4", "5", "6", " ", "7", "8", "9">>
      [] OTHER -> NoMatch

\* line 196: [a-zA-Z0-9_.+-]+@[a-zA-Z0-9-]+\.[a-zA-Z0-9-.]+  group 0
re_email(line) == NoMatch

\* line 209: Limit.*?(\d{2,3})\s*/\s*(\d{2,3})  (IGNORECASE)
re_allianz_kryti_1(line) == NoMatch

\* line 209: Limit.*?(\d{2,3})\s*/\s*(\d{2,3})  (IGNORECASE)  group 2
re_allianz_kryti_2(line) == NoMatch

\* line 241: Cena vozidla\s*[:\-]?\s*([\d\s]+)\s*Kc  (IGNORECASE)
re_allianz_cena_vozidla(line) ==
    CASE line = "Cena vozidla: 150 000 Kc" -> <<"1", "5", "0", " ", "0", "0", "0", " ">>
      [] OTHER -> NoMatch

\* line 245: Najete km\s*[:\-]?\s*([\d\s]+)  (IGNORECASE)
re_allianz_najete_km(line) ==
    CASE line = "Najete km: 42 000" -> <<"4", "2", " ", "0", "0", "0", "\n">>
      [] OTHER -> NoMatch

\* line 254: ([0-9]{1,3}(?:[ \u00A0]?[0-9]{3}))\s*Kc
re_allianz_cena(line) ==
    CASE line = "Cena vozidla: 150 000 Kc" -> <<"1", "5", "0", " ", "0", "0", "0">>
      [] OTHER -> NoMatch

\* line 292: Titul, jmeno, prijmeni\s+([^\n]*)
re_koop_jmeno(line) == NoMatch

\* line 293: Rodne cislo\s+(\d{9,10})
re_koop_rodne_cislo(line) ==
    CASE line = "Rodne cislo 9651011234" -> <<"9", "6", "5", "1", "0", "1", "1", "2", "3", "4">>
      [] OTHER -> NoMatch

\* line 295: Adresa bydliste\s+([^\n]*)
re_koop_adresa(line) == NoMatch

\* line 296: \b(\d{10})\b
re_koop_cislo_smlouvy(line) ==
    CASE line = "Rodne cislo: 0501011234" -> <<"0", "5", "0", "1", "0", "1", "1", "2", "3", "4">>
      [] line = "Rodne cislo 9651011234" -> <<"9", "6", "5", "1", "0", "1", "1", "2", "3", "4">>
      [] OTHER -> NoMatch

\* line 297: Registracni znacka\s+([^\n]*)
re_koop_spz(line) == NoMatch

\* line 300: Pojistna castka\s+([\d\s]+)
re_koop_cena_vozidla(line) ==
    CASE line = "Pojistna castka 150 000" -> <<"1", "5", "0", " ", "0", "0", "0", "\n">>
      [] OTHER -> NoMatch

\* line 301: Stav pocitadla \(km\)\s+([\d\s]+)
re_koop_najete_km(line) ==
    CASE line = "Stav pocitadla (km) 42 000" -> <<"4", "2", " ", "0", "0", "0", "\n">>
      [] OTHER -> NoMatch

\* line 302: Pocatek pojisteni\s+(\d{1,2}\.\s*\d{1,2}\.\s*\d{4})
re_koop_pocatek(line) == NoMatch

\* line 303: Celkove rocni pojistne\s+([\d\s]+)
re_koop_cena(line) == NoMatch

\* line 306: (\d{2,3})\s*mil\.\s*Kc
re_koop_limit(line) == NoMatch

\* line 313: Provozovatel\s+Shodny\s+s\s+pojistnikem  (IGNORECASE)  group 0
re_koop_provozovatel(line) ==
    CASE line = "Provozovatel Shodny s pojistnikem" -> <<"P", "r", "o", "v", "o", "z", "o", "v", "a", "t", "e", "l", " ", "S", "h", "o", "d", "n", "y", " ", "s", " ", "p", "o", "j", "i", "s", "t", "n", "i", "k", "e", "m">>
      [] OTHER -> NoMatch

\* line 315: Vlastnik\s+Shodny\s+s\s+pojistnikem  (IGNORECASE)  group 0
re_koop_vlastnik(line) ==
    CASE line = "Vlastnik Shodny s pojistnikem" -> <<"V", "l", "a", "s", "t", "n", "i", "k", " ", "S", "h", "o", "d", "n", "y", " ", "s", " ", "p", "o", "j", "i", "s", "t", "n", "i", "k", "e", "m">>
      [] OTHER -> NoMatch

\* line 319: Mobil\s+([\+0-9 ]+)
re_koop_telefon(line) == NoMatch

\* line 325: Typ osoby\s+([^\n]+)
re_koop_typ_osoby(line) == NoMatch

\* line 356: POJISTNIK\s*-\s*fyzicka osoba\s*(.*)  (IGNORECASE)
re_generali_pojistnik(line) ==
    CASE line = "POJISTNIK - fyzicka osoba" -> <<>>
      [] OTHER -> NoMatch

\* line 370: Titul,\ jmeno,\ prijmeni,\ titul\ za\ jmenem\s*:\s*(.+)
re_generali_field_jmeno(line) == NoMatch

\* line 371: Rodne\ cislo\s*:\s*(.+)
re_generali_field_rodne_cislo(line) ==
    CASE line = "Rodne cislo: 0501011234" -> <<"0", "5", "0", "1", "0", "1", "1", "2", "3", "4">>
      [] line = "Rodne cislo: 960101/1234" -> <<"9", "6", "0", "1", "0", "1", "/", "1", "2", "3", "4">>
      [] OTHER -> NoMatch

\* line 374: Telefon\s*:\s*(.+)
re_generali_field_telefon(line) == NoMatch

\* line 377: E\-mail\s*:\s*(.+)
re_generali_field_email(line) == NoMatch

\* line 378: Trvala\ adresa\s*:\s*(.+)
re_generali_field_adresa(line) == NoMatch

\* line 382: Pojistna smlouva cislo\s*:\s*(\d+)
re_generali_cislo_smlouvy(line) == NoMatch

\* line 388: 3\.3\s+Udaje o vozidle\s*(.*)  (IGNORECASE)
re_generali_vozidlo(line) == NoMatch

\* line 402: Registracni\ znacka\s*:\s*(.+)
re_generali_field_spz(line) == NoMatch

\* line 405: pocatkem pojisteni\s+(\d{1,2}\.\s*\d{1,2}\.\s*\d{4})  (IGNORECASE)
re_generali_pocatek(line) == NoMatch

\* line 422: Celkem rocni pojistne.*?([0-9\s]{4,7})\s*Kc  (IGNORECASE)
re_generali_cena_1(line) == NoMatch

\* line 423: Vyse jednotlive splatky.*?([0-9\s]{4,7})\s*Kc  (IGNORECASE)
re_generali_cena_2(line) == NoMatch

\* line 424: Castka\s*([0-9\s]{4,7})\s*Kc  (IGNORECASE)
re_generali_cena_3(line) == NoMatch

\* line 434: 4\.2\s+Doplnkova pojisteni\s+(.*)  (IGNORECASE)
re_generali_pripojisteni(line) == NoMatch

\* line 447: cena vozidla\s*[:\-]?\s*([0-9\s]{4,10})  (IGNORECASE)
re_generali_cena_vozidla(line) ==
    CASE line = "Cena vozidla: 150 000 Kc" -> <<"1", "5", "0", " ", "0", "0", "0", " ">>
      [] OTHER -> NoMatch

\* line 452: Najete kilometry\s*[:\-]?\s*([0-9\s]{1,10})  (IGNORECASE)
re_generali_najete_km(line) ==
    CASE line = "Najete kilometry: 42 000" -> <<"4", "2", " ", "0", "0", "0", "\n">>
      [] OTHER -> NoMatch

\* line 456: Rocni najezd\s*[:\-]?\s*([0-9\s]{1,10})  (IGNORECASE)
re_generali_rocni_najezd(line) ==
    CASE line = "Rocni najezd: Do 10 000 km" -> <<" ">>
      [] line = "Rocni najezd: 10 000" -> <<"1", "0", " ", "0", "0", "0", "\n">>
      [] OTHER -> NoMatch

\* line 461: Platce DPH\s*[:\-]?\s*ano  (IGNORECASE)  group 0
re_generali_platce_dph(line) == NoMatch

\* line 466: 3\.2\s+Drzitel\s+\(provozovatel\)\s+vozidla\s+je\s+shodny\s+s\s+pojistnikem  (IGNORECASE)  group 0
re_generali_provozovatel(line) ==
    CASE line = "3.2 Drzitel (provozovatel) vozidla je shodny s pojistnikem" -> <<"3", ".", "2", " ", "D", "r", "z", "i", "t", "e", "l", " ", "(", "p", "r", "o", "v", "o", "z", "o", "v", "a", "t", "e", "l", ")", " ", "v", "o", "z", "i", "d", "l", "a", " ", "j", "e", " ", "s", "h", "o", "d", "n", "y", " ", "s", " ", "p", "o", "j", "i", "s", "t", "n", "i", "k", "e", "m">>
      [] OTHER -> NoMatch

\* line 473: 3\.1\s+Vlastnik vozidla:\s*(.+)
re_generali_vlastnik(line) ==
    CASE line = "3.1 Vlastnik vozidla: Jan Novak" -> <<"J", "a", "n", " ", "N", "o", "v", "a", "k">>
      [] OTHER -> NoMatch

\* line 356: ^(?:PRACOVNIK|POJISTNE|TECHNICKE|POJISTENI)  (IGNORECASE)  group 0
re_generali_pojistnik_end(line) == NoMatch

\* line 388: ^(?:3\.4|POJISTENI|TECHNICKE)  (IGNORECASE)  group 0
re_generali_vozidlo_end(line) == NoMatch

\* line 328: Doplnkova pojisteni(.*)
re_koop_doplnkova(line) == NoMatch

\* line 328: Rocni pojistne  group 0
re_koop_rocni_pojistne(line) == NoMatch

\* line 411: Limit pojistneho plneni.*?(\d{2,3})\s*[\d\s]*Kc.*?skody na majetku.*?(\d{2,3})\s*[\d\s]*Kc  (IGNORECASE)
re_generali_kryti_1(line) == NoMatch

\* line 411, group 2
re_generali_kryti_2(line) == NoMatch

\* re.search(pattern, line) for the pattern of the given name.
Match(re, line) ==
    CASE re = "re_allianz_rodne_cislo" -> re_allianz_rodne_cislo(line)
      [] re = "re_allianz_spz" -> re_allianz_spz(line)
      [] re = "re_allianz_cislo_smlouvy" -> re_allianz_cislo_smlouvy(line)
      [] re = "re_allianz_pocatek" -> re_allianz_pocatek(line)
      [] re = "re_allianz_rocni_najezd" -> re_allianz_rocni_najezd(line)
      [] re = "re_allianz_telefon" -> re_allianz_telefon(line)
      [] re = "re_email" -> re_email(line)
      [] re = "re_allianz_kryti_1" -> re_allianz_kryti_1(line)
      [] re = "re_allianz_kryti_2" -> re_allianz_kryti_2(line)
      [] re = "re_allianz_cena_vozidla" -> re_allianz_cena_vozidla(line)
      [] re = "re_allianz_najete_km" -> re_allianz_najete_km(line)
      [] re = "re_allianz_cena" -> re_allianz_cena(line)
      [] re = "re_koop_jmeno" -> re_koop_jmeno(line)
      [] re = "re_koop_rodne_cislo" -> re_koop_rodne_cislo(line)
      [] re = "re_koop_adresa" -> re_koop_adresa(line)
      [] re = "re_koop_cislo_smlouvy" -> re_koop_cislo_smlouvy(line)
      [] re = "re_koop_spz" -> re_koop_spz(line)
      [] re = "re_koop_cena_vozidla" -> re_koop_cena_vozidla(line)
      [] re = "re_koop_najete_km" -> re_koop_najete_km(line)
      [] re = "re_koop_pocatek" -> re_koop_pocatek(line)
      [] re = "re_koop_cena" -> re_koop_cena(line)
      [] re = "re_koop_limit" -> re_koop_limit(line)
      [] re = "re_koop_provozovatel" -> re_koop_provozovatel(line)
      [] re = "re_koop_vlastnik" -> re_koop_vlastnik(line)
      [] re = "re_koop_telefon" -> re_koop_telefon(line)
      [] re = "re_koop_typ_osoby" -> re_koop_typ_osoby(line)
      [] re = "re_generali_pojistnik" -> re_generali_pojistnik(line)
      [] re = "re_generali_field_jmeno" -> re_generali_field_jmeno(line)
      [] re = "re_generali_field_rodne_cislo" -> re_generali_field_rodne_cislo(line)
      [] re = "re_generali_field_telefon" -> re_generali_field_telefon(line)
      [] re = "re_generali_field_email" -> re_generali_field_email(line)
      [] re = "re_generali_field_adresa" -> re_generali_field_adresa(line)
      [] re = "re_generali_cislo_smlouvy" -> re_generali_cislo_smlouvy(line)
      [] re = "re_generali_vozidlo" -> re_generali_vozidlo(line)
      [] re = "re_generali_field_spz" -> re_generali_field_spz(line)
      [] re = "re_generali_pocatek" -> re_generali_pocatek(line)
      [] re = "re_generali_cena_1" -> re_generali_cena_1(line)
      [] re = "re_generali_cena_2" -> re_generali_cena_2(line)
      [] re = "re_generali_cena_3" -> re_generali_cena_3(line)
      [] re = "re_generali_pripojisteni" -> re_generali_pripojisteni(line)
      [] re = "re_generali_cena_vozidla" -> re_generali_cena_vozidla(line)
      [] re = "re_generali_najete_km" -> re_generali_najete_km(line)
      [] re = "re_generali_rocni_najezd" -> re_generali_rocni_najezd(line)
      [] re = "re_generali_platce_dph" -> re_generali_platce_dph(line)
      [] re = "re_generali_provozovatel" -> re_generali_provozovatel(line)
      [] re = "re_generali_vlastnik" -> re_generali_vlastnik(line)
      [] re = "re_generali_pojistnik_end" -> re_generali_pojistnik_end(line)
      [] re = "re_generali_vozidlo_end" -> re_generali_vozidlo_end(line)
      [] re = "re_koop_doplnkova" -> re_koop_doplnkova(line)
      [] re = "re_koop_rocni_pojistne" -> re_koop_rocni_pojistne(line)
      [] re = "re_generali_kryti_1" -> re_generali_kryti_1(line)
      [] re = "re_generali_kryti_2" -> re_generali_kryti_2(line)

\* ------------------------------------------------------------------------
\* Searching a text
\* ------------------------------------------------------------------------
IsSpace(c) == c \in {" ", "\n"}

\* s.strip()
RECURSIVE LStrip(_)
LStrip(s) == IF s # <<>> /\ IsSpace(Head(s)) THEN LStrip(Tail(s)) ELSE s

RECURSIVE RStrip(_)
RStrip(s) ==
    IF s # <<>> /\ IsSpace(s[Len(s)]) THEN RStrip(SubSeq(s, 1, Len(s) - 1)) ELSE s

Strip(s) == LStrip(RStrip(s))

\* line.strip() of a line of the text
StripLine(line) == Strip(Chars(line))

\* needle in text
InText(text, needle) == \E i \in 1..Len(text) : needle \in Needles(text[i])

\* needle in line.lower()
InLineLower(line, needle) == needle \in Needles(Lower(line))

\* needle in text.lower()
InTextLower(text, needle) == \E i \in 1..Len(text) : InLineLower(text[i], needle)

\* Index of the first line at or after `from` on which the pattern matches, 0 if none.
FirstMatch(re, text, from) ==
    IF \E i \in from..Len(text) : Match(re, text[i]) # NoMatch
    THEN CHOOSE i \in from..Len(text) :
             /\ Match(re, text[i]) # NoMatch
             /\ \A j \in from..(i - 1) : Match(re, text[j]) = NoMatch
    ELSE 0

\* re.search(pattern, text): the group of the leftmost match.
Search(re, text) ==
    LET i == FirstMatch(re, text, 1)
    IN  IF i = 0 THEN NoMatch ELSE Match(re, text[i])

\* What a group of digits and whitespace that reached the end of line i goes on to
\* match: empty lines, then the leading digits of the next line.
RECURSIVE OpenTail(_, _)
OpenTail(text, i) ==
    IF i >= Len(text) THEN <<>>
    ELSE IF text[i + 1] = "" THEN <<"\n">> \o OpenTail(text, i + 1)
    ELSE LeadDigits(text[i + 1])

\* re.search for a pattern whose group ends in an open run [\d\s]+.
SearchOpen(re, text) ==
    LET i == FirstMatch(re, text, 1)
        g == Match(re, text[i])
    IN  IF i = 0 THEN NoMatch
        ELSE IF g # <<>> /\ g[Len(g)] = "\n" THEN g \o OpenTail(text, i)
        ELSE g

\* ------------------------------------------------------------------------
\* Normalizers
\* ------------------------------------------------------------------------
clean_phone_number_keep_prefix(phone_raw) ==
    IF phone_raw = <<>> THEN <<>>
    ELSE LET phone_clean == OnlyDigits(phone_raw)
         IN  IF Len(phone_clean) = 9 THEN phone_clean ELSE <<>>

clean_phone_number(phone_raw) ==
    IF phone_raw = <<>> THEN <<>>
    ELSE LET phone_clean == OnlyDigits(phone_raw)
             stripped ==
                 IF StartsWith(phone_clean, <<"4", "2", "0">>)
                 THEN SliceFrom(phone_clean, 3)
                 ELSE IF StartsWith(phone_clean, <<"0", "0", "4", "2", "0">>)
                 THEN SliceFrom(phone_clean, 5)
                 ELSE phone_clean
         IN  IF Len(stripped) = 9 THEN stripped ELSE <<>>

parse_birth_number_century_1900(birth_number) ==
    IF birth_number = <<>> \/ ~MatchSixDigits(birth_number) THEN <<>>
    ELSE LET rc == RemoveChar(birth_number, "/")
             year == ParseInt(Slice(rc, 0, 2)) + 1900
         IN  Slice(rc, 4, 6) \o <<".">> \o Slice(rc, 2, 4) \o <<".">> \o IntToStr(year)

parse_birth_number(birth_number) ==
    IF birth_number = <<>> \/ ~MatchSixDigits(birth_number) THEN <<>>
    ELSE LET rc == RemoveChar(birth_number, "/")
             yy == ParseInt(Slice(rc, 0, 2))
             year == yy + (IF yy >= 50 THEN 1900 ELSE 2000)
         IN  Slice(rc, 4, 6) \o <<".">> \o Slice(rc, 2, 4) \o <<".">> \o IntToStr(year)

\* ------------------------------------------------------------------------
\* Python dicts and the heap
\* ------------------------------------------------------------------------
\* A dict is the sequence of its <<key, value>> items in insertion order; objects
\* live in the heap, a sequence indexed by object id.

DictKeys(d) == [i \in 1..Len(d) |-> d[i][1]]

DictHas(d, k) == \E i \in 1..Len(d) : d[i][1] = k

\* d[k]
DictGet(d, k) == d[CHOOSE i \in 1..Len(d) : d[i][1] = k][2]

\* d.get(k, default)
DictGetDefault(d, k, default) == IF DictHas(d, k) THEN DictGet(d, k) ELSE default

\* d[k] = v: an existing key keeps its place, a new key goes last.
DictSet(d, k, v) ==
    IF DictHas(d, k)
    THEN [i \in 1..Len(d) |-> IF d[i][1] = k THEN <<k, v>> ELSE d[i]]
    ELSE Append(d, <<k, v>>)

\* One statement of an extractor: data[key] = value.
Assign(key, value) == [key |-> key, value |-> value, if_empty |-> FALSE]

\* if not data[key]: data[key] = value
AssignIfEmpty(key, value) == [key |-> key, value |-> value, if_empty |-> TRUE]

\* The statements of an if block: made when the condition holds.
When(cond, statement) == IF cond THEN <<statement>> ELSE <<>>

\* The dict d after the statements from the i-th on, in order.
RECURSIVE Execute(_, _, _)
Execute(d, statements, i) ==
    IF i > Len(statements) THEN d
    ELSE CHOOSE done \in
             {Execute(IF st.if_empty /\ DictGet(d0, st.key) # <<>> THEN d0
                      ELSE DictSet(d0, st.key, st.value),
                      statements, i + 1) : d0 \in {d}, st \in {statements[i]}} : TRUE

\* A variant that leaves the birth date as extract_common_fields made it.
Populate_birth_date_not_derived(data, statements) ==
    CHOOSE done \in
        {[heap |-> [new.heap EXCEPT ![new.ref] = Execute(new.heap[new.ref], sts, 1)],
          ref |-> new.ref] :
            new \in {data},
            sts \in {SelectSeq(statements, LAMBDA st : st.key # "Datum narozeni")}} : TRUE

\* The heap after the statements of an extractor on its dict object `data`.
Populate(data, statements) ==
    CHOOSE done \in
        {[heap |-> [new.heap EXCEPT ![new.ref] = Execute(new.heap[new.ref], sts, 1)],
          ref |-> new.ref] : new \in {data}, sts \in {statements}} : TRUE

FieldNames ==
    <<"Jmeno a prijmeni", "Rodne cislo", "Datum narozeni", "Adresa", "Cislo smlouvy",
      "SPZ", "Cena vozidla", "Najete km", "Rocni najezd", "Pocatek pojisteni", "Cena",
      "Kryti PR", "Havarijni pojisteni", "Dalsi pripojisteni", "Telefon", "E-mail",
      "Pojistnik - Typ osoby", "Pojistnik - Platce DPH", "Shodny provozovatel",
      "Shodny vlastnik", "Provozovatel - Nazev", "Provozovatel - ICO",
      "Provozovatel - Adresa", "Provozovatel - Typ osoby", "Provozovatel - Platce DPH",
      "Vlastnik - Nazev", "Vlastnik - ICO", "Vlastnik - Adresa", "Vlastnik - Typ osoby",
      "Vlastnik - Platce DPH", "Zdrojovy soubor">>

\* The dict literal of extract_common_fields: every field, empty.
CommonFields == [i \in 1..Len(FieldNames) |-> <<FieldNames[i], <<>>>>]

\* A variant whose dict literal lacks the annual mileage field.
extract_common_fields_missing(h) ==
    [heap |-> Append(h, SelectSeq(CommonFields, LAMBDA item : item[1] # "Rocni najezd")),
     ref |-> Len(h) + 1]

\* A variant that hands out one module-level dict instead of a new one per call.
extract_common_fields_shared(h) ==
    IF h = <<>> THEN [heap |-> <<CommonFields>>, ref |-> 1]
    ELSE [heap |-> h, ref |-> 1]

\* extract_common_fields(): a new dict object on every call.
extract_common_fields(h) == [heap |-> Append(h, CommonFields), ref |-> Len(h) + 1]

\* COLUMNS = list(extract_common_fields().keys())
COLUMNS == DictKeys(extract_common_fields(<<>>).heap[1])

S_ANO == <<"A", "N", "O">>
S_NE == <<"N", "E">>
S_neuvedeno == <<"n", "e", "u", "v", "e", "d", "e", "n", "o">>

YesNo(b) == IF b THEN S_ANO ELSE S_NE

\* ------------------------------------------------------------------------
\* Allianz extractor
\* ------------------------------------------------------------------------
\* search_pattern: the stripped group, "" when nothing matches.
search_pattern(re, text) ==
    LET g == Search(re, text) IN IF g = NoMatch THEN <<>> ELSE Strip(g)

\* search_after_line(startswith, offset=1)
search_after_line(lines, needle) ==
    LET hits == {i \in 1..Len(lines) : InLineLower(lines[i], needle) /\ i + 1 <= Len(lines)}
    IN  IF hits = {} THEN <<>>
        ELSE StripLine(lines[(CHOOSE i \in hits : \A j \in hits : i <= j) + 1])

\* The first of the line numbers the loop stops at, 0 if there is none.
FirstLine(found) ==
    IF found = {} THEN 0 ELSE CHOOSE i \in found : \A j \in found : i <= j

\* The name: the line before the first "Rodne cislo" line that is not the first line.
allianz_name(lines) ==
    LET HasLabel(line) == "Rodne cislo" \in Needles(line)
        i == FirstLine({k \in 2..Len(lines) : HasLabel(lines[k])})
    IN  IF i = 0 THEN <<>> ELSE StripLine(lines[i - 1])

\* The address: the first non-blank of the two lines after the "trvaly pobyt" line.
allianz_address(lines) ==
    LET IsLabel(line) == InLineLower(line, "trvaly pobyt")
        i == FirstLine({k \in 1..Len(lines) : IsLabel(lines[k])})
        cand == {j \in (i + 1)..(i + 2) : j <= Len(lines) /\ StripLine(lines[j]) # <<>>}
    IN  IF i = 0 \/ cand = {} THEN NoMatch
        ELSE StripLine(lines[CHOOSE j \in cand : \A k \in cand : j <= k])

\* The e-mail: in the five lines after the "kontaktni adresa" line, else anywhere.
allianz_email(lines) ==
    LET IsLabel(line) == InLineLower(line, "kontaktni adresa")
        i == FirstLine({k \in 1..Len(lines) : IsLabel(lines[k])})
        cand == {j \in (i + 1)..(i + 5) : j <= Len(lines) /\ re_email(lines[j]) # NoMatch}
        near == IF i = 0 \/ cand = {} THEN <<>>
                ELSE Strip(re_email(lines[CHOOSE j \in cand : \A k \in cand : j <= k]))
        any == Search("re_email", lines)
    IN  IF near # <<>> THEN near
        ELSE IF any = NoMatch THEN <<>> ELSE Strip(any)

S_balicek ==
    <<"S", "j", "e", "d", "n", "a", "n", "y", " ", "b", "a", "l", "i", "c", "e", "k", " ">>

\* The first package one of whose keywords occurs in the text, "" if none.  The
\* keywords are looked up in the lowercased text with runs of whitespace collapsed.
allianz_package(text) ==
    LET AnyOf(kws) == \E kw \in kws : InTextLower(text, kw)
    IN  IF AnyOf({"havarie ano", "doplatek na nove (gap) ano", "gap ano"})
        THEN S_balicek \o <<"M", "a", "x">>
        ELSE IF AnyOf({"kradez ano", "skla ano", "vandalismus ano"})
        THEN S_balicek \o <<"E", "x", "t", "r", "a">>
        ELSE IF AnyOf({"prirodni udalosti ano", "pozar a vybuch ano",
                     "poskozeni zviretem ano"})
        THEN S_balicek \o <<"P", "l", "u", "s">>
        ELSE IF AnyOf({"povinne ruceni ano", "pravni poradenstvi ano", "asistence ano",
                     "rozsirena asistence ano", "urazove pojisteni ano"})
        THEN S_balicek \o <<"K", "o", "m", "f", "o", "r", "t">>
        ELSE <<>>

\* The premium: the first amount in the three lines after the "vase pojistne" line.
allianz_cena(lines) ==
    LET IsLabel(line) == InLineLower(line, "vase pojistne")
        i == FirstLine({k \in 1..Len(lines) : IsLabel(lines[k])})
        cand == {j \in (i + 1)..(i + 3) : j <= Len(lines) /\ re_allianz_cena(lines[j]) # NoMatch}
    IN  IF i = 0 \/ cand = {} THEN S_neuvedeno
        ELSE RemoveChar(re_allianz_cena(lines[CHOOSE j \in cand : \A k \in cand : j <= k]), " ")

extract_data_allianz(h, text, filename) ==
    LET lines == text
        name1 == allianz_name(lines)
        jmeno_line == search_after_line(lines, "klient (vy):")
        rodne_cislo == search_pattern("re_allianz_rodne_cislo", text)
        adresa == allianz_address(lines)
        spz_match == Search("re_allianz_spz", text)
        telefon_raw == search_pattern("re_allianz_telefon", text)
        kryti_match == Search("re_allianz_kryti_1", text)
        balicek == allianz_package(text)
        cena_vozidla_match == Search("re_allianz_cena_vozidla", text)
        najezd_match == SearchOpen("re_allianz_najete_km", text)
    IN  Populate(extract_common_fields(h),
            <<Assign("Zdrojovy soubor", filename)>>
            \o When(name1 # <<>>, Assign("Jmeno a prijmeni", name1))
            \o When(jmeno_line # <<>>, AssignIfEmpty("Jmeno a prijmeni", Strip(jmeno_line)))
            \o <<Assign("Rodne cislo", rodne_cislo),
                 Assign("Datum narozeni", parse_birth_number(rodne_cislo))>>
            \o When(adresa # NoMatch, Assign("Adresa", adresa))
            \o When(spz_match # NoMatch, Assign("SPZ", spz_match))
            \o <<Assign("Cislo smlouvy", search_pattern("re_allianz_cislo_smlouvy", text)),
                 Assign("Pocatek pojisteni", search_pattern("re_allianz_pocatek", text)),
                 Assign("Rocni najezd", search_pattern("re_allianz_rocni_najezd", text)),
                 Assign("Telefon", clean_phone_number(telefon_raw)),
                 Assign("E-mail", allianz_email(lines))>>
            \o When(kryti_match # NoMatch,
                    Assign("Kryti PR",
                           kryti_match \o <<"/">> \o Search("re_allianz_kryti_2", text)))
            \o <<Assign("Shodny provozovatel",
                        YesNo(InTextLower(text, "provozovatel je shodny"))),
                 Assign("Shodny vlastnik",
                        YesNo(InTextLower(text, "vlastnik vozidla je shodny")))>>
            \o When(balicek # <<>>, Assign("Dalsi pripojisteni", balicek))
            \o <<Assign("Havarijni pojisteni",
                        YesNo(\E kw \in {"prirodni udalosti ano", "poskozeni zviretem ano",
                                         "havarie ano", "gap ano", "skla ano", "kradez ano"} :
                                  InTextLower(text, kw))),
                 Assign("Cena vozidla",
                        IF cena_vozidla_match # NoMatch
                        THEN RemoveChar(cena_vozidla_match, " ")
                        ELSE S_neuvedeno),
                 Assign("Najete km",
                        IF najezd_match # NoMatch
                        THEN RemoveChar(najezd_match, " ")
                        ELSE S_neuvedeno),
                 Assign("Cena", allianz_cena(lines))>>)

\* ------------------------------------------------------------------------
\* Kooperativa extractor
\* ------------------------------------------------------------------------
\* Code points order the characters of the model.
CharOrder ==
    <<"\n", " ", "(", ")", "+", ",", "-", ".", "/",
      "0", "1", "2", "3", "4", "5", "6", "7", "8", "9", ":",
      "A", "B", "C", "D", "E", "F", "G", "H", "I", "J", "K", "L", "M",
      "N", "O", "P", "Q", "R", "S", "T", "U", "V", "W", "X", "Y", "Z",
      "a", "b", "c", "d", "e", "f", "g", "h", "i", "j", "k", "l", "m",
      "n", "o", "p", "q", "r", "s", "t", "u", "v", "w", "x", "y", "z">>

Ord(c) == CHOOSE i \in 1..Len(CharOrder) : CharOrder[i] = c

\* a <= b for Python strings
RECURSIVE StrLeq(_, _)
StrLeq(a, b) ==
    IF a = <<>> THEN TRUE
    ELSE IF b = <<>> THEN FALSE
    ELSE IF Head(a) = Head(b) THEN StrLeq(Tail(a), Tail(b))
    ELSE Ord(Head(a)) < Ord(Head(b))

\* ", ".join(sorted(items)) for a set of strings
RECURSIVE SortedJoin(_)
SortedJoin(items) ==
    IF items = {} THEN <<>>
    ELSE LET first == CHOOSE a \in items : \A b \in items : StrLeq(a, b)
             rest == items \ {first}
         IN  IF rest = {} THEN first
             ELSE first \o <<",", " ">> \o SortedJoin(rest)

\* match.group(group).strip(): an AttributeError when match is None.
GroupStrip(match) == IF match = NoMatch THEN Raised ELSE Strip(match)

\* find_pattern: the stripped group; the bare except turns the error into the default.
find_pattern(re, text, default) ==
    LET r == GroupStrip(Search(re, text)) IN IF r = Raised THEN default ELSE r

\* find_pattern for a pattern whose group ends in an open run [\d\s]+.
find_pattern_open(re, text, default) ==
    LET r == GroupStrip(SearchOpen(re, text)) IN IF r = Raised THEN default ELSE r

\* re.findall: the groups of the matches, at most one per line of the model.
FindAll(re, text) ==
    LET F[i \in 0..Len(text)] ==
            IF i = 0 THEN <<>>
            ELSE IF Match(re, text[i]) # NoMatch THEN Append(F[i - 1], Match(re, text[i]))
            ELSE F[i - 1]
    IN  F[Len(text)]

\* The block after "Doplnkova pojisteni" up to "Rocni pojistne" or the end of the
\* text: its lines that mention "pojisteni", stripped.  NoMatch without the label.
koop_block_items(text) ==
    LET i == FirstMatch("re_koop_doplnkova", text, 1)
        e == FirstMatch("re_koop_rocni_pojistne", text, i + 1)
        last == IF e = 0 THEN Len(text) ELSE e - 1
    IN  IF i = 0 THEN NoMatch
        ELSE {StripLine(text[j]) : j \in {k \in (i + 1)..last : InLineLower(text[k], "pojisteni")}}

extract_data_koop(h, text, filename) ==
    LET rodne_cislo == find_pattern("re_koop_rodne_cislo", text, <<>>)
        limit_matches == FindAll("re_koop_limit", text)
        telefon_raw == find_pattern("re_koop_telefon", text, <<>>)
        email_match == Search("re_email", text)
        items == koop_block_items(text)
    IN  Populate(extract_common_fields(h),
            <<Assign("Zdrojovy soubor", filename),
              Assign("Jmeno a prijmeni", find_pattern("re_koop_jmeno", text, <<>>)),
              Assign("Rodne cislo", rodne_cislo),
              Assign("Datum narozeni", parse_birth_number(rodne_cislo)),
              Assign("Adresa", find_pattern("re_koop_adresa", text, <<>>)),
              Assign("Cislo smlouvy", find_pattern("re_koop_cislo_smlouvy", text, <<>>)),
              Assign("SPZ", find_pattern("re_koop_spz", text, <<>>)),
              Assign("Cena vozidla",
                     RemoveChar(find_pattern_open("re_koop_cena_vozidla", text, <<>>), " ")),
              Assign("Najete km",
                     RemoveChar(find_pattern_open("re_koop_najete_km", text, <<>>), " ")),
              Assign("Pocatek pojisteni", find_pattern("re_koop_pocatek", text, <<>>)),
              Assign("Cena", RemoveChar(find_pattern_open("re_koop_cena", text, <<>>), " ")),
              Assign("Kryti PR",
                     IF Len(limit_matches) >= 2
                     THEN limit_matches[1] \o <<"/">> \o limit_matches[2]
                     ELSE S_neuvedeno),
              Assign("Shodny provozovatel",
                     YesNo(Search("re_koop_provozovatel", text) # NoMatch)),
              Assign("Shodny vlastnik", YesNo(Search("re_koop_vlastnik", text) # NoMatch)),
              Assign("Telefon", clean_phone_number(telefon_raw)),
              Assign("E-mail", IF email_match # NoMatch THEN email_match ELSE <<>>),
              Assign("Pojistnik - Typ osoby", find_pattern("re_koop_typ_osoby", text, <<>>))>>
            \o When(items # NoMatch, Assign("Dalsi pripojisteni", SortedJoin(items)))
            \o <<Assign("Havarijni pojisteni", YesNo(InText(text, "Havarijni pojisteni")))>>)

\* ------------------------------------------------------------------------
\* Generali extractor
\* ------------------------------------------------------------------------
\* The lines of the block that a header line opens: those after it, up to the first
\* line that begins with one of the closing words, or to the end of the text.
\* NoMatch without the header.
Block(header, closing, text) ==
    LET i == FirstMatch(header, text, 1)
        e == FirstMatch(closing, text, i + 1)
        last == IF e = 0 THEN Len(text) ELSE e - 1
    IN  IF i = 0 THEN NoMatch ELSE SubSeq(text, i + 1, last)

\* extract_field / extract_car_field: the stripped rest of the labelled line.
extract_field(re, block) ==
    LET g == Search(re, block) IN IF g = NoMatch THEN <<>> ELSE Strip(g)

\* re.search for a pattern whose group is an open run [0-9\s]{m,max}.
SearchOpenMax(re, text, max) ==
    LET g == SearchOpen(re, text) IN IF g = NoMatch THEN NoMatch ELSE Slice(g, 0, max)

\* The premium: the first of the three patterns that matches.
generali_cena(text) ==
    LET c1 == Search("re_generali_cena_1", text)
        c2 == Search("re_generali_cena_2", text)
        c3 == Search("re_generali_cena_3", text)
    IN  IF c1 # NoMatch THEN c1 ELSE IF c2 # NoMatch THEN c2 ELSE c3

extract_data_generali(h, text, filename) ==
    LET pojistnik_text == Block("re_generali_pojistnik", "re_generali_pojistnik_end", text)
        rodne_cislo == extract_field("re_generali_field_rodne_cislo", pojistnik_text)
        telefon_raw == extract_field("re_generali_field_telefon", pojistnik_text)
        smlouva_match == Search("re_generali_cislo_smlouvy", text)
        vozidlo_text == Block("re_generali_vozidlo", "re_generali_vozidlo_end", text)
        pocatek_match == Search("re_generali_pocatek", text)
        kryti_match == Search("re_generali_kryti_1", text)
        cena_match == generali_cena(text)
        pripojisteni_match == Search("re_generali_pripojisteni", text)
        vozidlo_match == SearchOpenMax("re_generali_cena_vozidla", text, 10)
        najete_km_match == SearchOpenMax("re_generali_najete_km", text, 10)
        rocni_najezd_match == SearchOpenMax("re_generali_rocni_najezd", text, 10)
        vlastnik_match == Search("re_generali_vlastnik", text)
    IN  Populate(extract_common_fields(h),
            <<Assign("Zdrojovy soubor", filename)>>
            \o (IF pojistnik_text = NoMatch THEN <<>>
                ELSE <<Assign("Jmeno a prijmeni",
                              extract_field("re_generali_field_jmeno", pojistnik_text)),
                       Assign("Rodne cislo", rodne_cislo),
                       Assign("Datum narozeni",
                              parse_birth_number(RemoveChar(rodne_cislo, "/"))),
                       Assign("Telefon", clean_phone_number(telefon_raw)),
                       Assign("E-mail",
                              extract_field("re_generali_field_email", pojistnik_text)),
                       Assign("Adresa",
                              extract_field("re_generali_field_adresa", pojistnik_text)),
                       Assign("Pojistnik - Typ osoby",
                              <<"f", "y", "z", "i", "c", "k", "a", " ",
                                "o", "s", "o", "b", "a">>)>>)
            \o When(smlouva_match # NoMatch, Assign("Cislo smlouvy", Strip(smlouva_match)))
            \o When(vozidlo_text # NoMatch,
                    Assign("SPZ", extract_field("re_generali_field_spz", vozidlo_text)))
            \o When(pocatek_match # NoMatch,
                    Assign("Pocatek pojisteni", Strip(pocatek_match)))
            \o When(kryti_match # NoMatch,
                    Assign("Kryti PR",
                           Strip(kryti_match) \o <<"/">>
                               \o Strip(Search("re_generali_kryti_2", text))))
            \o When(cena_match # NoMatch, Assign("Cena", RemoveChar(cena_match, " ")))
            \o When(pripojisteni_match # NoMatch,
                    Assign("Dalsi pripojisteni", Strip(pripojisteni_match)))
            \o <<Assign("Havarijni pojisteni",
                        YesNo(\E kw \in {"havarijni pojisteni", "poskozeni zviretem",
                                         "prirodni udalosti", "havarie", "skla", "kradez",
                                         "vandalismus", "gap"} : InTextLower(text, kw))),
                 Assign("Cena vozidla",
                        IF vozidlo_match # NoMatch
                        THEN RemoveChar(vozidlo_match, " ")
                        ELSE S_neuvedeno),
                 Assign("Najete km",
                        IF najete_km_match # NoMatch
                        THEN RemoveChar(najete_km_match, " ")
                        ELSE S_neuvedeno),
                 Assign("Rocni najezd",
                        IF rocni_najezd_match # NoMatch
                        THEN RemoveChar(rocni_najezd_match, " ")
                        ELSE S_neuvedeno),
                 Assign("Pojistnik - Platce DPH",
                        IF Search("re_generali_platce_dph", text) # NoMatch
                        THEN S_ANO
                        ELSE S_neuvedeno),
                 Assign("Shodny provozovatel",
                        YesNo(Search("re_generali_provozovatel", text) # NoMatch)),
                 Assign("Vlastnik - Nazev",
                        IF vlastnik_match # NoMatch
                        THEN Strip(vlastnik_match)
                        ELSE S_neuvedeno),
                 Assign("Shodny vlastnik", S_NE)>>)

\* ------------------------------------------------------------------------
\* The output table (pandas)
\* ------------------------------------------------------------------------
\* The file at CSV_PATH: absent, or a header line and data lines of cells.
NoCsv == [exists |-> FALSE, header |-> <<>>, rows |-> <<>>]

IsIntStr(s) == s # <<>> /\ \A i \in 1..Len(s) : IsDigit(s[i])

\* digits "." digits, as to_csv writes a float
IsFloatStr(s) ==
    \E k \in 2..(Len(s) - 1) :
        /\ s[k] = "."
        /\ IsIntStr(SubSeq(s, 1, k - 1))
        /\ IsIntStr(SubSeq(s, k + 1, Len(s)))

\* str(int(s)): the decimal digits without leading zeros.
RECURSIVE CanonicalInt(_)
CanonicalInt(s) ==
    IF Len(s) > 1 /\ Head(s) = "0" THEN CanonicalInt(Tail(s)) ELSE s

\* The integral part of a float cell written by to_csv.
IntPart(s) == SubSeq(s, 1, (CHOOSE k \in 1..Len(s) : s[k] = ".") - 1)

\* The fraction digits of a float cell, "0" for an integer cell: repr(float(s)).
FracPart(s) ==
    IF IsIntStr(s) THEN <<"0">>
    ELSE LET k == CHOOSE j \in 1..Len(s) : s[j] = "."
             RECURSIVE DropZeros(_)
             DropZeros(f) ==
                 IF Len(f) > 1 /\ f[Len(f)] = "0"
                 THEN DropZeros(SubSeq(f, 1, Len(f) - 1))
                 ELSE f
         IN  DropZeros(SubSeq(s, k + 1, Len(s)))

\* The dtype pd.read_csv infers for a column from its cells.
ColumnDtype(cells) ==
    IF cells # {} /\ \A c \in cells : IsIntStr(c) THEN "int64"
    ELSE IF \A c \in cells : c = <<>> \/ IsIntStr(c) \/ IsFloatStr(c) THEN "float64"
    ELSE "object"

\* A cell of a column as pd.read_csv parses it and to_csv writes it back.
RewriteCell(dtype, c) ==
    IF dtype = "int64" THEN CanonicalInt(c)
    ELSE IF dtype = "float64" /\ c # <<>>
    THEN CanonicalInt(IF IsIntStr(c) THEN c ELSE IntPart(c)) \o <<".">> \o FracPart(c)
    ELSE c

\* pd.read_csv(CSV_PATH) followed by to_csv: the stored rows as they are written back.
ReadBack(rows) ==
    LET Column(j) == {rows[i][j] : i \in 1..Len(rows)}
    IN  [i \in 1..Len(rows) |->
            [j \in 1..Len(rows[i]) |-> RewriteCell(ColumnDtype(Column(j)), rows[i][j])]]

\* PDFHandler._save_to_csv
_save_to_csv(file, data) ==
    CHOOSE df_full \in
        {IF file.exists
         THEN [exists |-> TRUE, header |-> file.header,
               rows |-> Append(ReadBack(file.rows), df_new)]
         ELSE [exists |-> TRUE, header |-> COLUMNS, rows |-> <<df_new>>] :
            df_new \in {[j \in 1..Len(COLUMNS) |-> DictGetDefault(d, COLUMNS[j], <<>>)] :
                           d \in {data}}} : TRUE

\* ------------------------------------------------------------------------
\* The watched folder and the handler
\* ------------------------------------------------------------------------
MaxFiles == 2
MaxPending == 1

VARIABLES
    docs,           \* every file or directory created so far: docs[id]
    events,         \* ids whose creation event the observer has not dispatched yet
    watch,          \* WATCH_FOLDER: the files in it, as [name, id]
    sorted_folder,  \* SORTED_FOLDER
    error_folder,   \* ERROR_FOLDER
    csv,            \* the file at CSV_PATH
    heap,           \* the dict objects created so far
    log,            \* log[id]: what on_created did for the event of docs[id]
    last,           \* id of the event handled last, 0 before the first
    call            \* a direct call of an extractor or a normalizer

vars == <<docs, events, watch, sorted_folder, error_folder, csv, heap, log, last, call>>

N_a_PDF == <<"a", ".", "P", "D", "F">>
N_n_txt == <<"n", ".", "t", "x", "t">>
N_dir == <<"d">>

\* The documents that arrive in the watched folder.
DocTexts ==
    { <<"  ", "">>,
      <<"Jan Novak">>,
      <<"Allianz pojistovna, a.s.", "Jan Novak", "Rodne cislo: 0501011234">>,
      <<"KOOPERATIVA pojistovna", "Allianz pojistovna, a.s.">>,
      <<"Generali pojistovna", "KOOPERATIVA pojistovna", "Pojistna castka 150 000">>,
      <<"Generali pojistovna", "Cena vozidla: 150 000 Kc">>,
      <<"Ceska podnikatelska pojistovna", "POJISTNIK - fyzicka osoba",
        "Rodne cislo: 960101/1234">> }

\* str.lower() on a file name
LowerChar(c) ==
    CASE c = "P" -> "p" [] c = "D" -> "d" [] c = "F" -> "f"
      [] OTHER -> c

LowerName(s) == [i \in 1..Len(s) |-> LowerChar(s[i])]

\* s.endswith(suffix)
EndsWith(s, suffix) ==
    Len(s) >= Len(suffix) /\ SubSeq(s, Len(s) - Len(suffix) + 1, Len(s)) = suffix

\* not text.strip()
IsBlankText(text) == \A i \in 1..Len(text) : StripLine(text[i]) = <<>>

\* A variant that tests for Kooperativa first.
Classify_koop_first(text) ==
    IF InTextLower(text, "kooperativa") THEN "koop"
    ELSE IF InTextLower(text, "allianz") THEN "allianz"
    ELSE IF InTextLower(text, "generali") \/ InTextLower(text, "ceska podnikatelska")
    THEN "generali"
    ELSE "unsupported"

\* The if/elif chain of on_created that picks the extractor.
Classify(text) ==
    IF InTextLower(text, "allianz") THEN "allianz"
    ELSE IF InTextLower(text, "kooperativa") THEN "koop"
    ELSE IF InTextLower(text, "generali") \/ InTextLower(text, "ceska podnikatelska")
    THEN "generali"
    ELSE "unsupported"

\* The extractor call of the chosen branch.
Extract(issuer, h, text, filename) ==
    CASE issuer = "allianz" -> extract_data_allianz(h, text, filename)
      [] issuer = "koop" -> extract_data_koop(h, text, filename)
      [] issuer = "generali" -> extract_data_generali(h, text, filename)

\* os.rename(src_path, os.path.join(folder, filename)) on the three folders fs.
\* It fails when the source is gone or the system refuses; a file of the same name
\* in the target folder is replaced.
Rename(fs, f, target, refused) ==
    IF refused \/ f \notin fs.watch THEN [ok |-> FALSE, fs |-> fs]
    ELSE LET put(folder) == {g \in folder : g.name # f.name} \cup {f}
         IN  [ok |-> TRUE,
              fs |-> [watch |-> fs.watch \ {f},
                      sorted |-> IF target = "sorted" THEN put(fs.sorted) ELSE fs.sorted,
                      error |-> IF target = "error" THEN put(fs.error) ELSE fs.error]]

_move_to_processed_folder(fs, f, refused) == Rename(fs, f, "sorted", refused)

_move_to_error_folder(fs, f, refused) == Rename(fs, f, "error", refused)

\* What the environment refuses during one call of on_created.
Faults == [open : BOOLEAN, save : BOOLEAN, move_processed : BOOLEAN,
           move_error : BOOLEAN, move_error_again : BOOLEAN]

\* The except clause of on_created after the given step raised: move the file to
\* the error folder; a failure of that move leaves the handler as an exception.
ExceptClause(out, f, faults, step) ==
    LET mv == _move_to_error_folder(out.fs, f, faults.move_error_again)
    IN  [out EXCEPT !.fs = mv.fs, !.caught = TRUE,
                    !.failed = IF mv.ok THEN <<step>> ELSE <<step, "move_error">>,
                    !.ret = IF mv.ok THEN "returned" ELSE "raised"]

\* The body of PDFHandler.on_created for the event of file f with the given text:
\* the state it leaves and what it did (failed: the steps that raised).
HandlePdf(f, text, fs, file, h, faults) ==
    LET start == [fs |-> fs, csv |-> file, heap |-> h, ret |-> "returned",
                  text_read |-> FALSE, invoked |-> <<>>, ref |-> 0, saved |-> FALSE,
                  caught |-> FALSE, failed |-> <<>>]
        read == [start EXCEPT !.text_read = TRUE]
        issuer == Classify(text)
        mvp == _move_to_processed_folder(fs, f, faults.move_processed)
        mve == _move_to_error_folder(fs, f, faults.move_error)
    IN  IF faults.open THEN ExceptClause(start, f, faults, "open")
        ELSE IF IsBlankText(text) THEN read
        ELSE IF issuer = "unsupported"
        THEN IF mve.ok THEN [read EXCEPT !.fs = mve.fs]
             ELSE ExceptClause(read, f, faults, "move_error")
        ELSE CHOOSE out \in
                 {LET extracted == [read EXCEPT !.heap = ex.heap, !.ref = ex.ref,
                                                !.invoked = <<issuer>>]
                      written == [extracted EXCEPT
                                     !.csv = _save_to_csv(file, ex.heap[ex.ref]),
                                     !.saved = TRUE]
                  IN  IF faults.save THEN ExceptClause(extracted, f, faults, "save")
                      ELSE IF mvp.ok THEN [written EXCEPT !.fs = mvp.fs]
                      ELSE ExceptClause(written, f, faults, "move_processed") :
                     ex \in {Extract(issuer, h, text, f.name)}} : TRUE

NotHandled == [handled |-> FALSE, ignored |-> FALSE, ret |-> "pending",
               text_read |-> FALSE, invoked |-> <<>>, ref |-> 0, record |-> <<>>,
               saved |-> FALSE, caught |-> FALSE, rows_before |-> 0, rows_after |-> 0,
               failed |-> <<>>]

NoCall == [fn |-> "none", arg |-> <<>>, done |-> FALSE, result |-> <<>>]

Init ==
    /\ docs = <<>>
    /\ events = <<>>
    /\ watch = {}
    /\ sorted_folder = {}
    /\ error_folder = {}
    /\ csv = NoCsv
    /\ heap = <<>>
    /\ log = <<>>
    /\ last = 0
    /\ call = NoCall

\* Something appears in the watched folder; the observer queues its creation event.
Create(name, text, is_directory) ==
    /\ Len(docs) < MaxFiles
    /\ Len(events) < MaxPending
    /\ \A g \in watch : g.name # name
    /\ docs' = Append(docs, [name |-> name, text |-> text, is_directory |-> is_directory])
    /\ watch' = watch \cup {[name |-> name, id |-> Len(docs) + 1]}
    /\ events' = Append(events, Len(docs) + 1)
    /\ log' = Append(log, NotHandled)
    /\ UNCHANGED <<sorted_folder, error_folder, csv, heap, last, call>>

\* A PDF document appears in the watched folder.
CreatePdf(text) == Create(N_a_PDF, text, FALSE)

\* A file that is no PDF appears in the watched folder.
CreateOtherFile == Create(N_n_txt, <<"Jan Novak">>, FALSE)

\* A directory appears in the watched folder.
CreateDirectory == Create(N_dir, <<>>, TRUE)

\* PDFHandler.on_created(event) for the oldest queued event.
on_created(faults) ==
    /\ events # <<>>
    /\ LET id == Head(events)
           d == docs[id]
           f == [name |-> d.name, id |-> id]
           rows == Len(csv.rows)
       IN  /\ events' = Tail(events)
           /\ last' = id
           /\ IF d.is_directory \/ ~EndsWith(LowerName(d.name), <<".", "p", "d", "f">>)
              THEN /\ log' = [log EXCEPT ![id] =
                                 [NotHandled EXCEPT !.handled = TRUE, !.ignored = TRUE,
                                                    !.ret = "returned",
                                                    !.rows_before = rows,
                                                    !.rows_after = rows]]
                   /\ UNCHANGED <<watch, sorted_folder, error_folder, csv, heap>>
              ELSE \E out \in {HandlePdf(f, d.text,
                                        [watch |-> watch, sorted |-> sorted_folder,
                                         error |-> error_folder],
                                        csv, heap, faults)} :
                       /\ watch' = out.fs.watch
                       /\ sorted_folder' = out.fs.sorted
                       /\ error_folder' = out.fs.error
                       /\ csv' = out.csv
                       /\ heap' = out.heap
                       /\ log' = [log EXCEPT ![id] =
                                     [handled |-> TRUE, ignored |-> FALSE,
                                      ret |-> out.ret, text_read |-> out.text_read,
                                      invoked |-> out.invoked, ref |-> out.ref,
                                      record |-> IF out.ref = 0 THEN <<>>
                                                 ELSE out.heap[out.ref],
                                      saved |-> out.saved, caught |-> out.caught,
                                      rows_before |-> rows,
                                      rows_after |-> Len(out.csv.rows),
                                      failed |-> out.failed]]
    /\ UNCHANGED <<docs, call>>

Next ==
    \/ \E text \in DocTexts : CreatePdf(text)
    \/ CreateOtherFile
    \/ CreateDirectory
    \/ \E faults \in Faults : on_created(faults)

Spec == Init /\ [][Next]_vars

\* ------------------------------------------------------------------------
\* Direct calls of the extractors
\* ------------------------------------------------------------------------
MaxLines == 2

\* Every text of at most MaxLines lines of the vocabulary.
Texts == UNION {[1..n -> Vocabulary] : n \in 0..MaxLines}

Idle ==
    /\ docs = <<>>
    /\ events = <<>>
    /\ watch = {}
    /\ sorted_folder = {}
    /\ error_folder = {}
    /\ csv = NoCsv
    /\ heap = <<>>
    /\ log = <<>>
    /\ last = 0

InitExtract ==
    /\ Idle
    /\ call \in {[fn |-> f, arg |-> t, done |-> FALSE, result |-> <<>>] :
                    f \in {"allianz", "koop", "generali"}, t \in Texts}

CallExtractor(fn) ==
    /\ call.fn = fn
    /\ ~call.done
    /\ \E r \in {Extract(fn, heap, call.arg, N_a_PDF)} :
          /\ heap' = r.heap
          /\ call' = [call EXCEPT !.done = TRUE, !.result = r.ref]
    /\ UNCHANGED <<docs, events, watch, sorted_folder, error_folder, csv, log, last>>

call_extract_data_allianz == CallExtractor("allianz")

call_extract_data_koop == CallExtractor("koop")

call_extract_data_generali == CallExtractor("generali")

NextExtract ==
    \/ call_extract_data_allianz
    \/ call_extract_data_koop
    \/ call_extract_data_generali

SpecExtract == InitExtract /\ [][NextExtract]_vars

\* ------------------------------------------------------------------------
\* Direct calls of the normalizers
\* ------------------------------------------------------------------------
\* Every string of at most n characters of the set.
Strings(chars, n) == UNION {[1..k -> chars] : k \in 0..n}

PhonePrefixes ==
    { <<>>, <<"+">>, <<"4", "2", "0">>, <<"+", "4", "2", "0", " ">>,
      <<"0", "0", "4", "2", "0">>, <<"0", "0", "4", "2">>, <<"4", "2">>,
      <<"4", "2", "0", "0", "0", "4", "2", "0">>, <<"0", "0", "4", "2", "0", "4", "2", "0">> }

PhoneExamples ==
    { <<"+", "4", "2", "0", " ", "1", "2", "3", " ", "4", "5", "6", " ", "7", "8", "9">>,
      <<"0", "0", "4", "2", "0", "1", "2", "3", "4", "5", "6", "7", "8", "9">>,
      <<"1", "2", "3", "4", "5">> }

PhoneInputs ==
    PhoneExamples \cup {p \o b : p \in PhonePrefixes, b \in Strings({"7", " "}, MaxPhoneBody)}

InitPhone ==
    /\ Idle
    /\ call \in {[fn |-> "clean_phone_number", arg |-> s, done |-> FALSE, result |-> <<>>] :
                    s \in PhoneInputs}

call_clean_phone_number ==
    /\ call.fn = "clean_phone_number"
    /\ ~call.done
    /\ call' = [call EXCEPT !.done = TRUE, !.result = clean_phone_number(call.arg)]
    /\ UNCHANGED <<docs, events, watch, sorted_folder, error_folder, csv, heap, log, last>>

NextPhone == call_clean_phone_number

SpecPhone == InitPhone /\ [][NextPhone]_vars

BirthExamples ==
    { <<"9", "6", "0", "1", "0", "1", "1", "2", "3", "4">>,
      <<"9", "6", "0", "1", "0", "1", "/", "1", "2", "3", "4">>,
      <<"0", "5", "0", "1", "0", "1", "1", "2", "3", "4">>,
      <<"4", "9", "1", "2", "3", "1">>,
      <<"9", "9", "1", "2", "3", "1">>,
      <<"9", "6", "5", "1", "0", "1", "1", "2", "3", "4">> }

BirthInputs == BirthExamples \cup Strings({"0", "4", "5", "/"}, MaxBirthLen)

InitBirth ==
    /\ Idle
    /\ call \in {[fn |-> "parse_birth_number", arg |-> s, done |-> FALSE, result |-> <<>>] :
                    s \in BirthInputs}

call_parse_birth_number ==
    /\ call.fn = "parse_birth_number"
    /\ ~call.done
    /\ call' = [call EXCEPT !.done = TRUE, !.result = parse_birth_number(call.arg)]
    /\ UNCHANGED <<docs, events, watch, sorted_folder, error_folder, csv, heap, log, last>>

NextBirth == call_parse_birth_number

SpecBirth == InitBirth /\ [][NextBirth]_vars

\* ------------------------------------------------------------------------
\* Properties of the normalizers
\* ------------------------------------------------------------------------
S_123456789 == <<"1", "2", "3", "4", "5", "6", "7", "8", "9">>

\* The phone normalizer as the specification words it: the digits of the input,
\* without a leading "420", else without a leading "00420", kept only when nine
\* digits remain.
PhoneReference(s) ==
    LET d == SelectSeq(s, IsDigit)
        Begins(p) == Len(d) >= Len(p) /\ SubSeq(d, 1, Len(p)) = p
        r == IF Begins(<<"4", "2", "0">>) THEN SubSeq(d, 4, Len(d))
             ELSE IF Begins(<<"0", "0", "4", "2", "0">>) THEN SubSeq(d, 6, Len(d))
             ELSE d
    IN  IF Len(r) = 9 THEN r ELSE <<>>

PhoneCallDone == call.fn = "clean_phone_number" /\ call.done

\* C9: clean_phone_number returns, for every input, the empty string or exactly
\* nine digits, and the result is the reference's: non-digits removed, a leading
\* "420" (else a leading "00420") dropped, the rest returned only when it is nine
\* digits long; "+420 123 456 789" and "00420123456789" give "123456789" and
\* "12345" gives "".
C9_PhoneNormalizer ==
    PhoneCallDone =>
        /\ \/ call.result = <<>>
           \/ Len(call.result) = 9 /\ \A i \in 1..9 : IsDigit(call.result[i])
        /\ call.result = PhoneReference(call.arg)
        /\ call.arg = <<"+", "4", "2", "0", " ", "1", "2", "3", " ", "4", "5", "6", " ",
                        "7", "8", "9">> => call.result = S_123456789
        /\ call.arg = <<"0", "0", "4", "2", "0", "1", "2", "3", "4", "5", "6", "7", "8",
                        "9">> => call.result = S_123456789
        /\ call.arg = <<"1", "2", "3", "4", "5">> => call.result = <<>>

\* A number with the prefix "00420" has been normalized to its nine digits.
C9_Witness ==
    /\ PhoneCallDone
    /\ Len(call.arg) = 14
    /\ SubSeq(call.arg, 1, 5) = <<"0", "0", "4", "2", "0">>
    /\ call.result = SubSeq(call.arg, 6, 14)

BirthCallDone == call.fn = "parse_birth_number" /\ call.done

\* The decimal digit of n at the given power of ten.
DigitAt(n, power) == Digits[((n \div power) % 10) + 1]

\* C10: parse_birth_number returns "" for an input that does not start with six
\* digits; otherwise it returns DD.MM.YYYY with DD the input's digits 4-5, MM its
\* digits 2-3 as they stand, and YYYY the two-digit year plus 1900 when that year is
\* at least 50 and plus 2000 otherwise, a year of 1950..2049; "9601011234" gives
\* "01.01.1996" and the year digits "05" give 2005.
C10_BirthDate ==
    BirthCallDone =>
        LET s == call.arg
            r == call.result
            six == Len(s) >= 6 /\ \A i \in 1..6 : IsDigit(s[i])
            yy == 10 * DigitVal(s[1]) + DigitVal(s[2])
            year == IF yy >= 50 THEN 1900 + yy ELSE 2000 + yy
        IN  IF ~six THEN r = <<>>
            ELSE /\ Len(r) = 10
                 /\ <<r[1], r[2]>> = <<s[5], s[6]>>
                 /\ r[3] = "."
                 /\ <<r[4], r[5]>> = <<s[3], s[4]>>
                 /\ r[6] = "."
                 /\ <<r[7], r[8], r[9], r[10]>> =
                        <<DigitAt(year, 1000), DigitAt(year, 100), DigitAt(year, 10),
                          DigitAt(year, 1)>>
                 /\ year \in 1950..2049
                 /\ s = <<"9", "6", "0", "1", "0", "1", "1", "2", "3", "4">> =>
                        r = <<"0", "1", ".", "0", "1", ".", "1", "9", "9", "6">>
                 /\ <<s[1], s[2]>> = <<"0", "5">> =>
                        <<r[7], r[8], r[9], r[10]>> = <<"2", "0", "0", "5">>

\* A birth number of a year below 50 has been parsed into a date of the 2000s.
C10_Witness ==
    /\ BirthCallDone
    /\ call.arg = <<"0", "5", "0", "1", "0", "1", "1", "2", "3", "4">>
    /\ call.result = <<"0", "1", ".", "0", "1", ".", "2", "0", "0", "5">>

\* ------------------------------------------------------------------------
\* Properties of the extractors
\* ------------------------------------------------------------------------
Issuers == {"allianz", "koop", "generali"}

ExtractDone == call.fn \in Issuers /\ call.done

\* C5: each of the three extractors returns, for any text and for the empty one,
\* a record (it does not raise) whose keys are exactly the declared fields in the
\* declared order, equal to COLUMNS: no extractor adds or removes a key.  The
\* key sequence is one constant, so it is the same for all three issuers.
C5_FieldSet ==
    ExtractDone =>
        /\ call.result \in 1..Len(heap)
        /\ DictKeys(heap[call.result]) = COLUMNS
        /\ DictKeys(heap[call.result]) = FieldNames

\* The Kooperativa extractor has returned the full field set for the empty text.
C5_Witness ==
    /\ ExtractDone
    /\ call.fn = "koop"
    /\ call.arg = <<>>
    /\ Len(DictKeys(heap[call.result])) = 31
    /\ DictKeys(heap[call.result]) = COLUMNS

\* C8: in every extractor's record, vehicle price, odometer reading and annual
\* mileage each hold "neuvedeno", not "", whenever the extractor's pattern for the
\* field does not match the text (the Kooperativa extractor has no pattern for the
\* annual mileage, so none ever matches).
C8_NumericDefaults ==
    ExtractDone =>
        LET rec == heap[call.result]
            Absent(re) == FirstMatch(re, call.arg, 1) = 0
            Default(field, absent) == absent => DictGet(rec, field) = S_neuvedeno
        IN  /\ call.fn = "allianz" =>
                  /\ Default("Cena vozidla", Absent("re_allianz_cena_vozidla"))
                  /\ Default("Najete km", Absent("re_allianz_najete_km"))
                  /\ Default("Rocni najezd", Absent("re_allianz_rocni_najezd"))
            /\ call.fn = "koop" =>
                  /\ Default("Cena vozidla", Absent("re_koop_cena_vozidla"))
                  /\ Default("Najete km", Absent("re_koop_najete_km"))
                  /\ Default("Rocni najezd", TRUE)
            /\ call.fn = "generali" =>
                  /\ Default("Cena vozidla", Absent("re_generali_cena_vozidla"))
                  /\ Default("Najete km", Absent("re_generali_najete_km"))
                  /\ Default("Rocni najezd", Absent("re_generali_rocni_najezd"))

\* ------------------------------------------------------------------------
\* Properties of the pipeline
\* ------------------------------------------------------------------------
\* on_created has handled the PDF docs[id] (it got past the test of line 501).
HandledPdf(id) == id \in 1..Len(log) /\ log[id].handled /\ ~log[id].ignored

\* on_created has just handled a PDF: nothing but arrivals happened since.
LastHandledPdf == last # 0 /\ HandledPdf(last)

InFolder(folder, id) == \E f \in folder : f.id = id

\* marker in text.lower()
HasMarker(text, marker) == \E i \in 1..Len(text) : marker \in Needles(Lower(text[i]))

IssuerMarkers == {"allianz", "kooperativa", "generali", "ceska podnikatelska"}

NoIssuerMarker(text) == \A marker \in IssuerMarkers : ~HasMarker(text, marker)

\* not text.strip(): nothing but whitespace
WhitespaceOnly(text) == \A i \in 1..Len(text) : \A k \in 1..Len(Chars(text[i])) :
                            Chars(text[i])[k] = " "

\* C1: for every PDF handled by on_created whose text holds none of the issuer
\* markers, no extractor is invoked, no row is appended to the table and the file
\* is moved to the error folder, never to the processed one.  Stated for the calls
\* during which no step fails.
C1_UnsupportedToError ==
    (/\ LastHandledPdf
     /\ log[last].failed = <<>>
     /\ NoIssuerMarker(docs[last].text)) =>
        /\ log[last].invoked = <<>>
        /\ log[last].rows_after = log[last].rows_before
        /\ InFolder(error_folder, last)
        /\ ~InFolder(sorted_folder, last)

\* C2: a document whose text is empty or whitespace is a failure like any other:
\* when on_created has returned, no row was appended for it and its file is in
\* the error folder, so that every handled PDF is in exactly one of the processed
\* and the error folder.  Stated for the calls during which no step fails.
C2_EmptyDocumentQuarantined ==
    (LastHandledPdf /\ log[last].failed = <<>>) =>
        /\ WhitespaceOnly(docs[last].text) =>
              /\ log[last].rows_after = log[last].rows_before
              /\ InFolder(error_folder, last)
        /\ InFolder(sorted_folder, last) # InFolder(error_folder, last)

\* C3: on_created never lets a fault reach its caller: whichever step fails
\* (opening, extraction, saving, either move), it returns normally.
C3_NoRawFault == LastHandledPdf => log[last].ret = "returned"

\* C4: the table is append-only: a successful _save_to_csv creates it with the
\* header COLUMNS and one row when it does not exist, and otherwise leaves the
\* header and every earlier row as they are, in place, and adds one row at the
\* end; after n saved documents the table holds n rows.
C4_AppendOnly ==
    [][(last' # last /\ log'[last'].saved) =>
          /\ csv'.exists
          /\ ~csv.exists => csv'.header = COLUMNS /\ Len(csv'.rows) = 1
          /\ csv.exists =>
                /\ csv'.header = csv.header
                /\ Len(csv'.rows) = Len(csv.rows) + 1
                /\ SubSeq(csv'.rows, 1, Len(csv.rows)) = csv.rows
          /\ Len(csv'.rows) = Cardinality({id \in 1..Len(log') : log'[id].saved})]_vars

\* C6: the issuer is chosen by case-insensitive substring tests in a fixed order,
\* first match wins: a text with "allianz" goes to the Allianz extractor whatever
\* else it holds, one with "kooperativa" and no "allianz" to the Kooperativa
\* extractor, one with "generali" or "ceska podnikatelska" and neither earlier
\* marker to the Generali extractor; exactly one extractor runs per recognized
\* document.
C6_ClassificationOrder ==
    \A id \in 1..Len(log) :
        (HandledPdf(id) /\ log[id].text_read /\ ~WhitespaceOnly(docs[id].text)) =>
            LET Has(marker) == HasMarker(docs[id].text, marker)
            IN  /\ Has("allianz") => log[id].invoked = <<"allianz">>
                /\ (~Has("allianz") /\ Has("kooperativa")) => log[id].invoked = <<"koop">>
                /\ (/\ ~Has("allianz")
                    /\ ~Has("kooperativa")
                    /\ Has("generali") \/ Has("ceska podnikatelska")) =>
                       log[id].invoked = <<"generali">>
                /\ ~NoIssuerMarker(docs[id].text) => Len(log[id].invoked) = 1

\* A document naming Kooperativa first and Allianz second went to the Allianz
\* extractor.
C6_Witness ==
    \E id \in 1..Len(log) :
        /\ HandledPdf(id)
        /\ HasMarker(docs[id].text, "allianz")
        /\ HasMarker(docs[id].text, "kooperativa")
        /\ log[id].invoked = <<"allianz">>

\* on_created has called an extractor for docs[id].
Extracted(id) == HandledPdf(id) /\ log[id].ref # 0

\* C7: no state is kept between documents: the record of a document is what its
\* extractor makes of its text and file name alone, whatever was processed before
\* it, and it is an object of its own: the records made later leave it as it was
\* returned, and the default values stay empty.
C7_Stateless ==
    \A id \in 1..Len(log) :
        Extracted(id) =>
            /\ \A alone \in {Extract(log[id].invoked[1], <<>>, docs[id].text,
                                     docs[id].name)} :
                  log[id].record = alone.heap[alone.ref]
            /\ heap[log[id].ref] = log[id].record
            /\ \A other \in 1..Len(log) :
                  (Extracted(other) /\ other # id) => log[other].ref # log[id].ref
            /\ \A i \in 1..Len(CommonFields) : CommonFields[i][2] = <<>>

\* The same document has been processed twice, into two equal records.
C7_Witness ==
    \E id, other \in 1..Len(log) :
        /\ id # other
        /\ Extracted(id)
        /\ Extracted(other)
        /\ docs[id] = docs[other]
        /\ log[id].ref # log[other].ref
        /\ heap[log[id].ref] = heap[log[other].ref]
        /\ DictGet(heap[log[id].ref], "Rodne cislo") # <<>>

\* ------------------------------------------------------------------------
\* Properties of the derived fields
\* ------------------------------------------------------------------------
YesNoFields == {"Shodny provozovatel", "Shodny vlastnik", "Havarijni pojisteni"}

\* The lines of the vocabulary in which the marker phrase of an extractor's field
\* occurs: "provozovatel je shodny" / "vlastnik vozidla je shodny" / "<risk> ano"
\* for Allianz, "Provozovatel|Vlastnik Shodny s pojistnikem" / "Havarijni
\* pojisteni" for Kooperativa, "3.2 Drzitel (provozovatel) vozidla je shodny s
\* pojistnikem" / a risk keyword for Generali.  The Generali extractor tests no
\* phrase for the owner; the statement that the owner is the policyholder is taken.
MarkerLines(issuer, field) ==
    CASE issuer = "allianz" /\ field = "Shodny provozovatel" ->
             {"Provozovatel je shodny s pojistnikem"}
      [] issuer = "allianz" /\ field = "Shodny vlastnik" ->
             {"Vlastnik vozidla je shodny s pojistnikem"}
      [] issuer = "allianz" /\ field = "Havarijni pojisteni" ->
             {"Havarie ANO"}
      [] issuer = "koop" /\ field = "Shodny provozovatel" ->
             {"Provozovatel Shodny s pojistnikem"}
      [] issuer = "koop" /\ field = "Shodny vlastnik" ->
             {"Vlastnik Shodny s pojistnikem"}
      [] issuer = "koop" /\ field = "Havarijni pojisteni" ->
             {"Havarijni pojisteni"}
      [] issuer = "generali" /\ field = "Shodny provozovatel" ->
             {"3.2 Drzitel (provozovatel) vozidla je shodny s pojistnikem"}
      [] issuer = "generali" /\ field = "Shodny vlastnik" ->
             {"Vlastnik vozidla je shodny s pojistnikem"}
      [] issuer = "generali" /\ field = "Havarijni pojisteni" ->
             {"Havarie ANO", "Havarijni pojisteni"}

MarkerPresent(issuer, field, text) ==
    \E i \in 1..Len(text) : text[i] \in MarkerLines(issuer, field)

\* C11: in the record an extractor returns, same-operator, same-owner and
\* comprehensive-coverage are each "ANO" when the extractor's marker phrase for
\* the field is in the text and "NE" otherwise, never "" or anything else.
C11_YesNoFields ==
    ExtractDone =>
        \A field \in YesNoFields :
            DictGet(heap[call.result], field) =
                IF MarkerPresent(call.fn, field, call.arg) THEN S_ANO ELSE S_NE

\* C12: in the record any extractor returns, the birth date is parse_birth_number
\* of the record's own national ID with the slashes removed; it is never taken from
\* the text on its own, so a record without a national ID, or with one that does
\* not start with six digits, has no birth date.
C12_BirthDateFromId ==
    ExtractDone =>
        LET rec == heap[call.result]
            id == DictGet(rec, "Rodne cislo")
            date == DictGet(rec, "Datum narozeni")
            digits == RemoveChar(id, "/")
        IN  /\ date = parse_birth_number(digits)
            /\ (id = <<>> \/ ~MatchSixDigits(digits)) => date = <<>>
            /\ date # <<>> =>
                  /\ Len(date) = 10
                  /\ <<date[1], date[2]>> = <<digits[5], digits[6]>>
                  /\ <<date[4], date[5]>> = <<digits[3], digits[4]>>
                  /\ <<date[9], date[10]>> = <<digits[1], digits[2]>>

\* The Generali extractor has returned a national ID written with a slash and the
\* birth date parsed from its digits.
C12_Witness ==
    /\ ExtractDone
    /\ call.fn = "generali"
    /\ call.arg = <<"POJISTNIK - fyzicka osoba", "Rodne cislo: 960101/1234">>
    /\ DictGet(heap[call.result], "Rodne cislo") =
           <<"9", "6", "0", "1", "0", "1", "/", "1", "2", "3", "4">>
    /\ DictGet(heap[call.result], "Datum narozeni") =
           <<"0", "1", ".", "0", "1", ".", "1", "9", "9", "6">>

\* ------------------------------------------------------------------------
\* Row and file of one document
\* ------------------------------------------------------------------------
\* on_created has just handled a PDF of a recognized issuer: an extractor ran.
LastRecognizedPdf == LastHandledPdf /\ log[last].invoked # <<>>

\* The call of on_created for docs[id] added a row to the table.
RowAdded(id) == log[id].rows_after = log[id].rows_before + 1

\* C13: after on_created has handled a document of a recognized issuer, whatever
\* failed on the way, the table holds a row for the document if and only if its
\* file is in the processed folder, and a document whose file is in the error
\* folder has no row.
C13_RowMatchesDisposition ==
    LastRecognizedPdf =>
        /\ RowAdded(last) <=> InFolder(sorted_folder, last)
        /\ InFolder(error_folder, last) => ~RowAdded(last)

====
